---- MODULE Spec2Model ----
(***************************************************************************)
(* Verba commit-hook tooling: the log extractor of scripts/process-logs.py *)
(* and the three-way database merge driver of scripts/merge-db.py.         *)
(*                                                                         *)
(* Text is modelled as sequences of one-character strings, so that         *)
(* splitting, joining, trimming, the regular expressions and the hash      *)
(* input (a concatenation) are computed the way the Python code computes   *)
(* them.  SHA-256 is taken as injective: a change_hash is its hash input.  *)
(***************************************************************************)
EXTENDS Integers, Sequences, FiniteSets, TLC

(***************************************************************************)
(* Text helpers (Python str methods and the re patterns of the source)     *)
(***************************************************************************)

\* Python's None / an optional value: <<>> is None, <<v>> is the value v.
None == <<>>

Some(v) == <<v>>

\* Truthiness of an optional string: None and "" are falsy.
Truthy(opt) == opt # None /\ opt[1] # <<>>

NL == "\n"

Whitespace == {" ", "\t", "\n", "\r"}

DigitChars == <<"0", "1", "2", "3", "4", "5", "6", "7", "8", "9">>

IsDigit(c) == \E i \in 1..10 : DigitChars[i] = c

DigitVal(c) == (CHOOSE i \in 1..10 : DigitChars[i] = c) - 1

StartsWith(s, p) == Len(s) >= Len(p) /\ SubSeq(s, 1, Len(p)) = p

\* str.strip(): the text without its leading and trailing whitespace.
Strip(s) ==
    LET keep == {i \in 1..Len(s) : s[i] \notin Whitespace}
    IN  IF keep = {} THEN <<>>
        ELSE LET lo == CHOOSE i \in keep : \A j \in keep : i <= j
                 hi == CHOOSE i \in keep : \A j \in keep : j <= i
             IN  SubSeq(s, lo, hi)

\* content.split('\n'): the pieces between newlines; '' splits to [''].
Split(s) ==
    LET nl == {i \in 1..Len(s) : s[i] = NL}
        n == Cardinality(nl)
        pos(k) == CHOOSE i \in nl : Cardinality({j \in nl : j < i}) = k - 1
    IN  [k \in 1..(n + 1) |->
            SubSeq(s, IF k = 1 THEN 1 ELSE pos(k - 1) + 1,
                      IF k = n + 1 THEN Len(s) ELSE pos(k) - 1)]

\* '\n'.join(lines)
RECURSIVE Join(_)
Join(ls) ==
    IF Len(ls) = 0 THEN <<>>
    ELSE IF Len(ls) = 1 THEN ls[1]
    ELSE ls[1] \o <<NL>> \o Join(Tail(ls))

\* The literal "] User Prompt:" of both prompt-header patterns.
UserPromptLit ==
    <<"]", " ", "U", "s", "e", "r", " ", "P", "r", "o", "m", "p", "t", ":">>

FileLit == <<"F", "I", "L", "E", ":">>

\* Index of the "]" that closes the bracket when the line matches
\* ^\[([^\]]+)\] User Prompt:   and 0 when it does not.
PromptPrefixEnd(line) ==
    IF Len(line) < 3 \/ line[1] # "[" THEN 0
    ELSE LET close == {i \in 2..Len(line) : line[i] = "]"}
         IN  IF close = {} THEN 0
             ELSE LET k == CHOOSE i \in close : \A j \in close : i <= j
                  IN  IF k >= 3 /\ Len(line) >= k + 13
                         /\ SubSeq(line, k, k + 13) = UserPromptLit
                      THEN k ELSE 0

\* re.match(r'^\[([^\]]+)\] User Prompt:', line)
PromptPrefixMatch(line) == PromptPrefixEnd(line) # 0

\* re.match(r'^\[([^\]]+)\] User Prompt: (.+)$', line)
timestamp_match(line) ==
    LET k == PromptPrefixEnd(line)
    IN  k # 0 /\ Len(line) >= k + 15 /\ line[k + 14] = " "

\* timestamp_match.group(1) and .group(2)
HeaderTimestamp(line) == SubSeq(line, 2, PromptPrefixEnd(line) - 1)

HeaderPrompt(line) == SubSeq(line, PromptPrefixEnd(line) + 15, Len(line))

\* line.startswith('FILE:')
StartsWithFile(line) == StartsWith(line, FileLit)

\* re.match(r'^FILE: (.+)$', line)
file_match(line) == StartsWith(line, FileLit \o <<" ">>) /\ Len(line) >= 7

FileName(line) == SubSeq(line, 7, Len(line))

\* re.match(r'^-+$', line)
IsSeparator(line) == Len(line) >= 1 /\ \A i \in 1..Len(line) : line[i] = "-"

DiffMarkers == {"+", "→", "-"}

\* re.match(r'^\s*\d+\s*[+→-]\s+', line)
IsDiffLine(line) ==
    \E d1 \in 1..Len(line) : \E d2 \in d1..Len(line) : \E m \in (d2 + 1)..Len(line) :
        /\ \A i \in 1..(d1 - 1) : line[i] \in Whitespace
        /\ \A i \in d1..d2 : IsDigit(line[i])
        /\ \A i \in (d2 + 1)..(m - 1) : line[i] \in Whitespace
        /\ line[m] \in DiffMarkers
        /\ m + 1 <= Len(line)
        /\ line[m + 1] \in Whitespace

(***************************************************************************)
(* The code_changes table                                                  *)
(***************************************************************************)

\* A hash input that leaves the timestamp out.
change_hash_no_timestamp(filename, file_change, timestamp) ==
    filename \o file_change

\* hash_input = f"{filename}{file_change}{timestamp}"; the SHA-256 digest of
\* it is taken as injective, so the hash input stands for the change_hash.
change_hash_of(filename, file_change, timestamp) ==
    filename \o file_change \o timestamp

\* One row of code_changes (the seven columns, in the order of the INSERT).
Row(h, filename, file_change, dt, prompt, is_committed, commit_hash) ==
    [change_hash |-> h, filename |-> filename, file_change |-> file_change,
     timestamp |-> dt, prompt |-> prompt, is_committed |-> is_committed,
     commit_hash |-> commit_hash]

Hashes(rows) == {r.change_hash : r \in rows}

\* change_hash TEXT PRIMARY KEY: no two rows of a table share a change_hash.
PrimaryKeyOk(rows) ==
    \A r1 \in rows : \A r2 \in rows : r1.change_hash = r2.change_hash => r1 = r2

\* INSERT OR REPLACE: a row with the same key is replaced by the new one.
InsertOrReplace(rows, rec) ==
    {r \in rows : r.change_hash # rec.change_hash} \cup {rec}

\* INSERT OR REPLACE that writes is_committed = False and commit_hash = None,
\* as the INSERT of process-logs.py does.
InsertOrReplaceDefaults(rows, rec) ==
    {r \in rows : r.change_hash # rec.change_hash}
    \cup {[rec EXCEPT !.is_committed = FALSE, !.commit_hash = None]}

\* An INSERT into a table that has lost its PRIMARY KEY constraint.
InsertNoKey(rows, rec) == rows \cup {rec}

\* INSERT OR IGNORE INTO code_changes ... : the row is added unless a row with
\* the same change_hash (the PRIMARY KEY) is already there.
InsertOrIgnore(rows, rec) ==
    IF \E r \in rows : r.change_hash = rec.change_hash THEN rows
    ELSE rows \cup {rec}

(***************************************************************************)
(* Bounds and inputs                                                       *)
(***************************************************************************)

\* The longest log text drawn, in lines.
MaxLines == 4

\* The most lines drawn after the prompt header of a single block.
MaxBody == 4

\* The most lines ever appended to prompts.txt.
MaxLogLines == 3

\* How far the wall clock advances.
MaxTicks == 1

\* How many different stored timestamps the rows of the merge sources take.
MaxStamp == 1

\* The most records built by direct calls of _store_change.
MaxCalls == 2

\* The wall clock at the start, as a date number (see IsoDateValue).
NowStart == 20260101

\* The lines log texts are drawn from.
IsoStamp == <<"2", "0", "2", "4", "-", "0", "1", "-", "0", "1">>

LineHeaderP == <<"[">> \o IsoStamp \o UserPromptLit \o <<" ", "p">>

LineHeaderQ == <<"[", "t">> \o UserPromptLit \o <<" ", "q">>

LineFileA == FileLit \o <<" ", "a">>

LineFileB == FileLit \o <<" ", "b">>

LineX == <<"x">>

LineDiff == <<"1", " ", "+", " ", "y">>

LineBlank == <<>>

LineSpace == <<" ">>

LineSep == <<"-", "-">>

\* A file whose name begins with the name of another file, and a content line
\* that begins with the rest of that name.
LineFileAB == FileLit \o <<" ", "a", "b">>

LineBX == <<"b", "x">>

\* "FILE:" without a name and a prompt header without a prompt: neither is a
\* header, and neither is collected as content.
LineFileBare == FileLit

LinePromptBare == <<"[", "t">> \o UserPromptLit

LineChoices ==
    {LineHeaderP, LineHeaderQ, LineFileA, LineFileB, LineX, LineBlank,
     LineSpace, LineSep}

\* The lines a writer appends to prompts.txt.
LogLines ==
    {LineHeaderP, LineHeaderQ, LineFileA, LineFileB, LineX, LineBlank, LineSep}

\* The log texts of up to MaxLines lines (a text that ends with a newline
\* has the blank line last).
Contents ==
    {Join(ls) : ls \in UNION {[1..n -> LineChoices] : n \in 1..MaxLines}}

(***************************************************************************)
(* State                                                                   *)
(***************************************************************************)

VARIABLES
    stores,     \* merge-db.py: database path -> the file at that path
    merged,     \* history: output path -> the last merge_databases call into it
    merge_exit  \* merge-db.py: exit status of main(), None before it ran

mvars == <<stores, merged, merge_exit>>

VARIABLES
    content,                \* the text handed to _parse_and_store_changes
    code_changes,           \* rows of code_changes in verba/changes.db
    now,                    \* the wall clock read by datetime.now()
    pc,                     \* "idle", or "loop" inside _parse_and_store_changes
    lines,                  \* content.split('\n')
    idx,                    \* position of the for loop in lines
    current_timestamp,
    current_prompt,
    current_file,
    file_changes,
    pending_file,
    pending_file_changes,
    changes_count,
    result,                 \* the last return value, None before a return
    emitted,                \* history: the records built by _store_change
                            \* during the current (or last) run, in order
    inserted,               \* history: rows that run added to code_changes
    first_run,              \* history: code_changes when the first run ended
    rerun                   \* history: the current (or last) run is not the first

VARIABLES
    db_exists,          \* verba/changes.db exists
    prompts_file,       \* verba/prompts.txt: None, or its text
    last_position,      \* processing_metadata['last_position']: None, or text
    mode,               \* the caller of the running extractor: "direct" or "main"
    current_size,       \* process_new_logs: the size read at line 61
    changes_processed,  \* main: what process_new_logs returned (None is None)
    exit_code,          \* process-logs.py: exit status of main(), None before
    last_run,           \* history: how the last process_new_logs ended
    handed              \* history: what the runs since the last reset handed
                        \* to the extractor (from, to, text, rows before)

ivars == <<db_exists, prompts_file, last_position, mode, current_size,
           changes_processed, exit_code, last_run, handed>>

pvars == <<lines, idx, current_timestamp, current_prompt, current_file,
           file_changes, pending_file, pending_file_changes, changes_count>>

evars == <<content, code_changes, now, pc, pvars, result, emitted, inserted,
           first_run, rerun>>

(***************************************************************************)
(* merge-db.py                                                             *)
(***************************************************************************)

\* The paths main() receives (%O %A %B) and two further output paths.
SourcePaths == {"base", "current", "other"}

TargetPaths == {"t1", "t2"}

\* Output paths of merges done in batches, two stores at a time.
BatchPaths == {"ab", "ab_c", "bc", "a_bc"}

\* A path at which there is never a file: the source a two-store merge lacks.
AbsentPath == "none"

Paths == SourcePaths \cup TargetPaths \cup BatchPaths \cup {AbsentPath}

\* A file on disk: no file, a zero-sized file, a file that is not an SQLite
\* database, or a database with or without the code_changes table.
MissingFile == [kind |-> "missing", table |-> FALSE, rows |-> {}]

ZeroFile == [kind |-> "zero", table |-> FALSE, rows |-> {}]

CorruptFile == [kind |-> "corrupt", table |-> FALSE, rows |-> {}]

NoTableDb == [kind |-> "db", table |-> FALSE, rows |-> {}]

Database(rows) == [kind |-> "db", table |-> TRUE, rows |-> rows]

\* The sequences that hold every row of the set once, ORDER BY timestamp ASC;
\* rows of equal timestamp come in any order.
SortedScans(rows) ==
    LET n == Cardinality(rows)
    IN  {s \in [1..n -> rows] :
            /\ \A i \in 1..n : \A j \in 1..n : s[i] = s[j] => i = j
            /\ \A i \in 1..n : \A j \in 1..n :
                  i < j => s[i].timestamp <= s[j].timestamp}

\* get_records_from_db(db_path): the possible results.  A missing or
\* zero-sized file gives []; a failing SELECT is caught and gives [].
get_records_from_db(file) ==
    IF file.kind \in {"missing", "zero"} THEN {<<>>}
    ELSE IF file.kind = "db" /\ file.table THEN SortedScans(file.rows)
    ELSE {<<>>}

\* The insert loop with a plain INSERT: the first duplicate change_hash raises
\* IntegrityError and ends the loop.
RECURSIVE MergeLoopAbort(_, _, _, _, _)
MergeLoopAbort(all_records, i, rows, total_changes, inserted_count) ==
    IF i > Len(all_records)
    THEN [rows |-> rows, inserted_count |-> inserted_count]
    ELSE IF \E r \in rows : r.change_hash = all_records[i].change_hash
    THEN [rows |-> rows, inserted_count |-> inserted_count]
    ELSE MergeLoopAbort(all_records, i + 1, rows \cup {all_records[i]},
                        total_changes + 1, inserted_count + 1)

\* The insert loop of merge_databases from record i on.  total_changes is
\* the connection's count of rows changed since it was opened.
RECURSIVE MergeLoop(_, _, _, _, _)
MergeLoop(all_records, i, rows, total_changes, inserted_count) ==
    IF i > Len(all_records)
    THEN [rows |-> rows, inserted_count |-> inserted_count]
    ELSE LET after == InsertOrIgnore(rows, all_records[i])
             total == IF after = rows THEN total_changes ELSE total_changes + 1
         IN  MergeLoop(all_records, i + 1, after, total,
                       IF total > 0 THEN inserted_count + 1 ELSE inserted_count)

\* An output path that opens only when it already holds a database.
OutputOpensExisting(file) == file.kind = "db"

\* sqlite3.connect(output_path) followed by the CREATE TABLE IF NOT EXISTS:
\* raises DatabaseError when the file is not a database.
OutputOpens(file) == file.kind # "corrupt"

\* merge_databases(base_path, current_path, other_path, output_path)
merge_databases(base_path, current_path, other_path, output_path) ==
    \E base_records \in get_records_from_db(stores[base_path]) :
    \E current_records \in get_records_from_db(stores[current_path]) :
    \E other_records \in get_records_from_db(stores[other_path]) :
        LET args == <<base_path, current_path, other_path, output_path>>
            all_records == base_records \o current_records \o other_records
            done == MergeLoop(all_records, 1, stores[output_path].rows, 0, 0)
        IN  IF OutputOpens(stores[output_path])
            THEN /\ stores' = [stores EXCEPT ![output_path] = Database(done.rows)]
                 /\ merged' = [merged EXCEPT ![output_path] =
                        [status |-> "ok", args |-> args, pre |-> stores,
                         inserted_count |-> done.inserted_count]]
            ELSE /\ stores' = stores
                 /\ merged' = [merged EXCEPT ![output_path] =
                        [status |-> "failed", args |-> args, pre |-> stores,
                         inserted_count |-> 0]]

\* main(): merge_databases(base, current, other, current); exit 0, or exit 1
\* when it raised.
MergeMain ==
    /\ merge_databases("base", "current", "other", "current")
    /\ merge_exit' = Some(IF OutputOpens(stores["current"]) THEN 0 ELSE 1)

\* merge_databases called with the three sources in the order (A, B, C) and
\* a separate output path.
MergeForward ==
    /\ merge_databases("base", "current", "other", "t1")
    /\ UNCHANGED merge_exit

\* The same sources in the order (C, B, A) into another output path.
MergeReverse ==
    /\ merge_databases("other", "current", "base", "t2")
    /\ UNCHANGED merge_exit

\* merge_databases over two stores X and Y into an output path that holds no
\* file yet; the third source path holds no file either.
MergeAB ==
    /\ stores["ab"] = MissingFile
    /\ merge_databases("base", "current", AbsentPath, "ab")
    /\ UNCHANGED merge_exit

MergeAB_C ==
    /\ merged["ab"].status = "ok"
    /\ stores["ab_c"] = MissingFile
    /\ merge_databases("ab", "other", AbsentPath, "ab_c")
    /\ UNCHANGED merge_exit

MergeBC ==
    /\ stores["bc"] = MissingFile
    /\ merge_databases("current", "other", AbsentPath, "bc")
    /\ UNCHANGED merge_exit

MergeA_BC ==
    /\ merged["bc"].status = "ok"
    /\ stores["a_bc"] = MissingFile
    /\ merge_databases("base", "bc", AbsentPath, "a_bc")
    /\ UNCHANGED merge_exit

\* merge_databases(S, S, S, S): a store merged with itself.
MergeSelf ==
    /\ merge_databases("other", "other", "other", "other")
    /\ UNCHANGED merge_exit

(***************************************************************************)
(* process-logs.py: _store_change                                         *)
(***************************************************************************)

\* timestamp.replace('Z', '+00:00')
RECURSIVE ReplaceZ(_)
ReplaceZ(ts) ==
    IF ts = <<>> THEN <<>>
    ELSE (IF Head(ts) = "Z" THEN <<"+", "0", "0", ":", "0", "0">> ELSE <<Head(ts)>>)
         \o ReplaceZ(Tail(ts))

\* The texts datetime.fromisoformat accepts, among those the model draws:
\* a calendar date YYYY-MM-DD.  (Texts with a time of day are not drawn.)
IsIsoDate(t) ==
    /\ Len(t) = 10
    /\ \A i \in {1, 2, 3, 4, 6, 7, 9, 10} : IsDigit(t[i])
    /\ t[5] = "-" /\ t[8] = "-"
    /\ 10 * DigitVal(t[6]) + DigitVal(t[7]) \in 1..12
    /\ 10 * DigitVal(t[9]) + DigitVal(t[10]) \in 1..28
    /\ \E i \in 1..4 : t[i] # "0"

\* The parsed date as a number that orders like the date: YYYYMMDD.
IsoDateValue(t) ==
    10000 * (1000 * DigitVal(t[1]) + 100 * DigitVal(t[2]) + 10 * DigitVal(t[3])
             + DigitVal(t[4]))
    + 100 * (10 * DigitVal(t[6]) + DigitVal(t[7]))
    + 10 * DigitVal(t[9]) + DigitVal(t[10])

\* try: dt = datetime.fromisoformat(timestamp.replace('Z', '+00:00'))
\* except ValueError: dt = datetime.now()
ParseTimestamp(timestamp, clock) ==
    LET t == ReplaceZ(timestamp)
    IN  IF IsIsoDate(t) THEN IsoDateValue(t) ELSE clock

\* What _store_change hands to the INSERT, with the timestamp text it was
\* built from.
Built(filename, file_change, timestamp, prompt, clock) ==
    [filename |-> filename, file_change |-> file_change,
     timestamp_text |-> timestamp, prompt |-> prompt,
     row |-> Row(change_hash_of(filename, file_change, timestamp), filename,
                 file_change, ParseTimestamp(timestamp, clock), prompt, FALSE,
                 None)]

\* new_record without the "content is just empty lines" return.
new_record_no_strip(filename, file_change, timestamp, prompt, clock) ==
    IF filename = <<>> \/ file_change = <<>> \/ timestamp = <<>> \/ prompt = <<>>
    THEN None
    ELSE Some(Built(filename, file_change, timestamp, prompt, clock))

\* _store_change up to the INSERT: None after one of the two early returns
\* (an empty argument, blank content), else the record with its hash and its
\* parsed timestamp.
new_record(filename, file_change, timestamp, prompt, clock) ==
    IF filename = <<>> \/ file_change = <<>> \/ timestamp = <<>> \/ prompt = <<>>
    THEN None
    ELSE IF Strip(file_change) = <<>> THEN None
    ELSE Some(Built(filename, file_change, timestamp, prompt, clock))

\* _store_change(filename, file_change, timestamp, prompt): code_changes
\* after the call.
store_change(rows, filename, file_change, timestamp, prompt, clock) ==
    LET rec == new_record(filename, file_change, timestamp, prompt, clock)
    IN  IF rec = None THEN rows ELSE InsertOrIgnore(rows, rec[1].row)

\* The arguments _store_change is called with.
HashNames == {<<"a">>, <<"a", "b">>}

HashChanges == {<<"x">>, <<"b", "x">>, <<"x", "t">>, <<" ">>}

HashStamps == {<<"t">>, <<"t", "t">>}

\* One call of _store_change(filename, file_change, timestamp, prompt).
StoreChange ==
    /\ pc = "idle"
    /\ Len(emitted) < MaxCalls
    /\ \E filename \in HashNames : \E file_change \in HashChanges :
       \E timestamp \in HashStamps :
          LET rec == new_record(filename, file_change, timestamp, <<"p">>, now)
              rows == store_change(code_changes, filename, file_change,
                                   timestamp, <<"p">>, now)
          IN  /\ code_changes' = rows
              /\ emitted' = IF rec = None THEN emitted ELSE Append(emitted, rec[1])
              /\ inserted' = inserted + Cardinality(rows) - Cardinality(code_changes)
    /\ UNCHANGED <<content, now, pc, pvars, result, first_run, rerun>>
    /\ UNCHANGED ivars

(***************************************************************************)
(* process-logs.py: _parse_and_store_changes                              *)
(***************************************************************************)

\* What a run has done so far to the table and to its counter.
Progress == [rows |-> code_changes, changes_count |-> changes_count,
             emitted |-> emitted, inserted |-> inserted]

\* if file and changes and current_timestamp and current_prompt:
\*     self._store_change(file, '\n'.join(changes), ...); changes_count += 1
Flush(p, file, changes, timestamp, prompt, clock) ==
    IF Truthy(file) /\ changes # <<>> /\ Truthy(timestamp) /\ Truthy(prompt)
    THEN LET rec == new_record(file[1], Join(changes), timestamp[1], prompt[1], clock)
             rows == store_change(p.rows, file[1], Join(changes), timestamp[1],
                                  prompt[1], clock)
         IN  [rows |-> rows,
              changes_count |-> p.changes_count + 1,
              emitted |-> IF rec = None THEN p.emitted
                          ELSE Append(p.emitted, rec[1]),
              inserted |-> p.inserted + Cardinality(rows) - Cardinality(p.rows)]
    ELSE p

\* The two flushes when a prompt header's timestamp and prompt are adopted
\* before the open files are flushed instead of after.
FlushBothAfterAdopt(clock) ==
    LET at_header == pc = "loop" /\ idx <= Len(lines) /\ timestamp_match(lines[idx])
        timestamp == IF at_header THEN Some(HeaderTimestamp(lines[idx]))
                     ELSE current_timestamp
        prompt == IF at_header THEN Some(HeaderPrompt(lines[idx]))
                  ELSE current_prompt
    IN  Flush(Flush(Progress, current_file, file_changes, timestamp, prompt, clock),
              pending_file, pending_file_changes, timestamp, prompt, clock)

\* The flush of the current file followed by the flush of the pending file,
\* as at a prompt header, at a FILE: header and after the loop.
FlushBoth(clock) ==
    Flush(Flush(Progress, current_file, file_changes, current_timestamp,
                current_prompt, clock),
          pending_file, pending_file_changes, current_timestamp, current_prompt,
          clock)

Flushed(p) ==
    /\ code_changes' = p.rows
    /\ changes_count' = p.changes_count
    /\ emitted' = p.emitted
    /\ inserted' = p.inserted

\* Lines 95-104: the split and the initial parser state.
EnterLoop(text) ==
    /\ pc' = "loop"
    /\ lines' = Split(text)
    /\ idx' = 1
    /\ changes_count' = 0
    /\ current_timestamp' = None
    /\ current_prompt' = None
    /\ current_file' = None
    /\ file_changes' = <<>>
    /\ pending_file' = None
    /\ pending_file_changes' = <<>>
    /\ emitted' = <<>>
    /\ inserted' = 0

\* The locals of _parse_and_store_changes go out of scope.
LeaveLoop ==
    /\ pc' = "idle"
    /\ lines' = <<>>
    /\ idx' = 1
    /\ current_timestamp' = None
    /\ current_prompt' = None
    /\ current_file' = None
    /\ file_changes' = <<>>
    /\ pending_file' = None
    /\ pending_file_changes' = <<>>

\* _parse_and_store_changes(content) is called on its own.
ParseStart ==
    /\ pc = "idle"
    /\ EnterLoop(content)
    /\ mode' = "direct"
    /\ rerun' = (first_run # None)
    /\ UNCHANGED <<content, code_changes, now, result, first_run>>
    /\ UNCHANGED <<db_exists, prompts_file, last_position, current_size,
                   changes_processed, exit_code, last_run, handed>>

InLoop == pc = "loop" /\ idx <= Len(lines)

\* The prompt-header branch without "pending_file = None".
ParsePromptHeaderKeepsPending ==
    /\ InLoop
    /\ timestamp_match(lines[idx])
    /\ Flushed(FlushBoth(now))
    /\ file_changes' = <<>>
    /\ current_file' = None
    /\ pending_file' = pending_file
    /\ pending_file_changes' = <<>>
    /\ current_timestamp' = Some(HeaderTimestamp(lines[idx]))
    /\ current_prompt' = Some(HeaderPrompt(lines[idx]))
    /\ idx' = idx + 1
    /\ UNCHANGED <<content, now, pc, lines, result, first_run, rerun>>
    /\ UNCHANGED ivars

\* A "[timestamp] User Prompt: text" line: lines 108-129.
ParsePromptHeader ==
    /\ InLoop
    /\ timestamp_match(lines[idx])
    /\ Flushed(FlushBoth(now))
    /\ file_changes' = <<>>
    /\ current_file' = None
    /\ pending_file' = None
    /\ pending_file_changes' = <<>>
    /\ current_timestamp' = Some(HeaderTimestamp(lines[idx]))
    /\ current_prompt' = Some(HeaderPrompt(lines[idx]))
    /\ idx' = idx + 1
    /\ UNCHANGED <<content, now, pc, lines, result, first_run, rerun>>
    /\ UNCHANGED ivars

\* A "FILE: name" line: lines 132-154.
ParseFileHeader ==
    /\ InLoop
    /\ ~timestamp_match(lines[idx])
    /\ file_match(lines[idx])
    /\ Flushed(FlushBoth(now))
    /\ LET new_file == FileName(lines[idx])
       IN  IF Truthy(current_file)
           THEN /\ pending_file' = Some(new_file)
                /\ pending_file_changes' = <<>>
                /\ UNCHANGED <<current_file, file_changes>>
           ELSE /\ current_file' = Some(new_file)
                /\ file_changes' = <<>>
                /\ UNCHANGED <<pending_file, pending_file_changes>>
    /\ idx' = idx + 1
    /\ UNCHANGED <<content, now, pc, lines, current_timestamp, current_prompt,
                   result, first_run, rerun>>
    /\ UNCHANGED ivars

\* A line of dashes: lines 157-158.
ParseSeparator ==
    /\ InLoop
    /\ ~timestamp_match(lines[idx])
    /\ ~file_match(lines[idx])
    /\ IsSeparator(lines[idx])
    /\ idx' = idx + 1
    /\ UNCHANGED <<content, code_changes, now, pc, lines, current_timestamp,
                   current_prompt, current_file, file_changes, pending_file,
                   pending_file_changes, changes_count, result, emitted,
                   inserted, first_run, rerun>>
    /\ UNCHANGED ivars

\* The condition of line 163-164 and that of line 166.
CollectsForCurrent(line) ==
    \/ IsDiffLine(line)
    \/ (Strip(line) # <<>> /\ ~StartsWithFile(line) /\ ~IsSeparator(line)
        /\ ~PromptPrefixMatch(line))
    \/ Strip(line) = <<>>

\* The condition of line 170, without the test of pending_file.
CollectsForPending(line) ==
    ~PromptPrefixMatch(line) /\ ~StartsWithFile(line) /\ ~IsSeparator(line)

\* Any other line: lines 161-171.
ParseContent ==
    /\ InLoop
    /\ ~timestamp_match(lines[idx])
    /\ ~file_match(lines[idx])
    /\ ~IsSeparator(lines[idx])
    /\ file_changes' =
          IF Truthy(current_file) /\ CollectsForCurrent(lines[idx])
          THEN Append(file_changes, lines[idx]) ELSE file_changes
    /\ pending_file_changes' =
          IF Truthy(pending_file) /\ CollectsForPending(lines[idx])
          THEN Append(pending_file_changes, lines[idx]) ELSE pending_file_changes
    /\ idx' = idx + 1
    /\ UNCHANGED <<content, code_changes, now, pc, lines, current_timestamp,
                   current_prompt, current_file, pending_file, changes_count,
                   result, emitted, inserted, first_run, rerun>>
    /\ UNCHANGED ivars

\* After the loop: the two final flushes and the return, lines 173-182.
ParseReturn ==
    /\ pc = "loop"
    /\ mode = "direct"
    /\ idx > Len(lines)
    /\ LET p == FlushBoth(now)
       IN  /\ Flushed(p)
           /\ result' = Some(p.changes_count)
           /\ first_run' = IF first_run = None THEN Some(p.rows) ELSE first_run
    /\ LeaveLoop
    /\ UNCHANGED <<content, now, rerun>>
    /\ UNCHANGED ivars

\* _parse_and_store_changes as a function of the text: the parser state
\* before the first line, the effect of one line, and the whole call.
ParserStart(rows) ==
    [timestamp |-> None, prompt |-> None, file |-> None, changes |-> <<>>,
     pending |-> None, pending_changes |-> <<>>,
     progress |-> [rows |-> rows, changes_count |-> 0, emitted |-> <<>>,
                   inserted |-> 0]]

FlushState(st, clock) ==
    Flush(Flush(st.progress, st.file, st.changes, st.timestamp, st.prompt, clock),
          st.pending, st.pending_changes, st.timestamp, st.prompt, clock)

ParseLine(st, line, clock) ==
    IF timestamp_match(line)
    THEN [timestamp |-> Some(HeaderTimestamp(line)),
          prompt |-> Some(HeaderPrompt(line)),
          file |-> None, changes |-> <<>>,
          pending |-> None, pending_changes |-> <<>>,
          progress |-> FlushState(st, clock)]
    ELSE IF file_match(line)
    THEN IF Truthy(st.file)
         THEN [st EXCEPT !.pending = Some(FileName(line)),
                         !.pending_changes = <<>>,
                         !.progress = FlushState(st, clock)]
         ELSE [st EXCEPT !.file = Some(FileName(line)),
                         !.changes = <<>>,
                         !.progress = FlushState(st, clock)]
    ELSE IF IsSeparator(line) THEN st
    ELSE [st EXCEPT
            !.changes = IF Truthy(st.file) /\ CollectsForCurrent(line)
                        THEN Append(st.changes, line) ELSE st.changes,
            !.pending_changes = IF Truthy(st.pending) /\ CollectsForPending(line)
                                THEN Append(st.pending_changes, line)
                                ELSE st.pending_changes]

RECURSIVE ParseLines(_, _, _, _)
ParseLines(st, ls, i, clock) ==
    IF i > Len(ls) THEN FlushState(st, clock)
    ELSE ParseLines(ParseLine(st, ls[i], clock), ls, i + 1, clock)

\* The table and the count after _parse_and_store_changes(text) on a table
\* that held rows.
parse_and_store_changes(text, rows, clock) ==
    ParseLines(ParserStart(rows), Split(text), 1, clock)

(***************************************************************************)
(* process-logs.py: main, process_new_logs and the stored position         *)
(***************************************************************************)

\* str(position)
RECURSIVE IntToStr(_)
IntToStr(n) ==
    IF n < 10 THEN <<DigitChars[n + 1]>>
    ELSE IntToStr(n \div 10) \o <<DigitChars[(n % 10) + 1]>>

\* int(result[0])
RECURSIVE StrToInt(_)
StrToInt(s) ==
    IF Len(s) = 1 THEN DigitVal(s[1])
    ELSE 10 * StrToInt(SubSeq(s, 1, Len(s) - 1)) + DigitVal(s[Len(s)])

\* int(result[0][0]): only the first digit of the stored value is read.
get_last_processed_position_first_digit ==
    IF last_position = None THEN 0 ELSE DigitVal(last_position[1][1])

\* A lookup that starts over when the log is shorter than the stored value.
get_last_processed_position_rotated ==
    IF last_position = None THEN 0
    ELSE IF prompts_file # None /\ Len(prompts_file[1]) < StrToInt(last_position[1])
    THEN 0
    ELSE StrToInt(last_position[1])

\* get_last_processed_position(): the stored value, 0 when there is none.
get_last_processed_position ==
    IF last_position = None THEN 0 ELSE StrToInt(last_position[1])

\* os.path.getsize(self.prompts_file)
FileSize == Len(prompts_file[1])

\* f.seek(last_position); new_content = f.read()
NewContent ==
    SubSeq(prompts_file[1], get_last_processed_position + 1, FileSize)

\* Where process_new_logs goes: one of its three early returns (lines 52-54,
\* 65-67, 78-80), or on to the extractor.
ProcessOutcome ==
    IF prompts_file = None THEN "no_file"
    ELSE IF FileSize <= get_last_processed_position THEN "no_new"
    ELSE IF Strip(NewContent) = <<>> THEN "blank"
    ELSE "process"

\* main() after process_new_logs returned: sys.exit(1) when the value is
\* None, else the script ends with status 0.
ExitStatus(processed) == IF processed = None THEN 1 ELSE 0

\* main(): the database file is not there (lines 254-257).
MainNoDatabase ==
    /\ pc = "idle"
    /\ ~db_exists
    /\ exit_code' = Some(1)
    /\ last_run' = "no_db"
    /\ UNCHANGED <<db_exists, prompts_file, last_position, mode, current_size,
                   changes_processed, handed>>
    /\ UNCHANGED evars

\* main() --reset-position: reset_position() and return.
MainReset ==
    /\ pc = "idle"
    /\ db_exists
    /\ last_position' = Some(IntToStr(0))
    /\ exit_code' = Some(0)
    /\ last_run' = "reset"
    /\ handed' = <<>>
    /\ UNCHANGED <<db_exists, prompts_file, mode, current_size, changes_processed>>
    /\ UNCHANGED evars

\* main(): process_new_logs() returns early, with None.
MainNothingToProcess ==
    /\ pc = "idle"
    /\ db_exists
    /\ ProcessOutcome # "process"
    /\ changes_processed' = None
    /\ exit_code' = Some(ExitStatus(None))
    /\ last_run' = ProcessOutcome
    /\ UNCHANGED <<db_exists, prompts_file, last_position, mode, current_size,
                   handed>>
    /\ UNCHANGED evars

\* main(): process_new_logs() reads the new content and calls the extractor.
MainProcessStart ==
    /\ pc = "idle"
    /\ db_exists
    /\ ProcessOutcome = "process"
    /\ current_size' = FileSize
    /\ content' = NewContent
    /\ EnterLoop(NewContent)
    /\ mode' = "main"
    /\ rerun' = FALSE
    /\ changes_processed' = None
    /\ exit_code' = None
    /\ last_run' = "running"
    /\ handed' = Append(handed, [from |-> get_last_processed_position,
                                 to |-> FileSize, text |-> NewContent,
                                 rows |-> code_changes])
    /\ UNCHANGED <<code_changes, now, result, first_run>>
    /\ UNCHANGED <<db_exists, prompts_file, last_position>>

\* The extractor returns to process_new_logs, which stores current_size as
\* the position and returns the count to main (lines 85-91, 265-272).
MainProcessEnd ==
    /\ pc = "loop"
    /\ mode = "main"
    /\ idx > Len(lines)
    /\ LET p == FlushBoth(now)
       IN  /\ Flushed(p)
           /\ result' = Some(p.changes_count)
           /\ changes_processed' = Some(p.changes_count)
           /\ exit_code' = Some(ExitStatus(Some(p.changes_count)))
    /\ last_position' = Some(IntToStr(current_size))
    /\ last_run' = "processed"
    /\ LeaveLoop
    /\ UNCHANGED <<content, now, first_run, rerun>>
    /\ UNCHANGED <<db_exists, prompts_file, mode, current_size, handed>>

\* A writer appends one line to prompts.txt (creating it), between runs.
AppendLog ==
    /\ pc = "idle"
    /\ \E line \in LogLines :
          LET old == IF prompts_file = None THEN <<>> ELSE prompts_file[1]
          IN  /\ Cardinality({i \in 1..Len(old) : old[i] = NL}) < MaxLogLines
              /\ prompts_file' = Some(old \o line \o <<NL>>)
    /\ UNCHANGED <<db_exists, last_position, mode, current_size,
                   changes_processed, exit_code, last_run, handed>>
    /\ UNCHANGED evars

\* A writer cuts prompts.txt back to fewer of its lines, or to nothing (the
\* log is rotated), between runs.
TruncateLog ==
    /\ pc = "idle"
    /\ prompts_file # None
    /\ \E k \in 0..(FileSize - 1) :
          /\ IF k = 0 THEN TRUE ELSE prompts_file[1][k] = NL
          /\ prompts_file' = Some(SubSeq(prompts_file[1], 1, k))
    /\ UNCHANGED <<db_exists, last_position, mode, current_size,
                   changes_processed, exit_code, last_run, handed>>
    /\ UNCHANGED evars

\* Time passes.
Tick ==
    /\ now < NowStart + MaxTicks
    /\ now' = now + 1
    /\ UNCHANGED <<content, code_changes, pc, pvars, result, emitted, inserted,
                   first_run, rerun>>
    /\ UNCHANGED ivars

(***************************************************************************)
(* Specifications                                                          *)
(***************************************************************************)

vars == <<mvars, evars, ivars>>

NoMerge == [status |-> "none", args |-> <<>>, inserted_count |-> 0,
            pre |-> [p \in Paths |-> MissingFile]]

MergeIdle ==
    /\ stores = [p \in Paths |-> MissingFile]
    /\ merged = [p \in Paths |-> NoMerge]
    /\ merge_exit = None

\* No run has started: an empty table, no stored position.
ProcessorIdle ==
    /\ code_changes = {}
    /\ now = NowStart
    /\ pc = "idle"
    /\ lines = <<>>
    /\ idx = 1
    /\ current_timestamp = None
    /\ current_prompt = None
    /\ current_file = None
    /\ file_changes = <<>>
    /\ pending_file = None
    /\ pending_file_changes = <<>>
    /\ changes_count = 0
    /\ result = None
    /\ emitted = <<>>
    /\ inserted = 0
    /\ first_run = None
    /\ rerun = FALSE
    /\ last_position = None
    /\ mode = "direct"
    /\ current_size = 0
    /\ changes_processed = None
    /\ exit_code = None
    /\ last_run = "none"
    /\ handed = <<>>

ExtractIdle ==
    /\ ProcessorIdle
    /\ prompts_file = None

\* The extractor run, any number of times, over one log text.
InitExtract ==
    /\ content \in Contents
    /\ db_exists = TRUE
    /\ ExtractIdle
    /\ MergeIdle

NextExtract ==
    \/ (ParseStart /\ UNCHANGED mvars)
    \/ (ParsePromptHeader /\ UNCHANGED mvars)
    \/ (ParseFileHeader /\ UNCHANGED mvars)
    \/ (ParseSeparator /\ UNCHANGED mvars)
    \/ (ParseContent /\ UNCHANGED mvars)
    \/ (ParseReturn /\ UNCHANGED mvars)
    \/ (Tick /\ UNCHANGED mvars)

SpecExtract == InitExtract /\ [][NextExtract]_vars

\* _store_change called again and again on one table.
InitHash ==
    /\ content = <<>>
    /\ db_exists = TRUE
    /\ ExtractIdle
    /\ MergeIdle

NextHash ==
    \/ (StoreChange /\ UNCHANGED mvars)
    \/ (Tick /\ UNCHANGED mvars)

SpecHash == InitHash /\ [][NextHash]_vars

\* The lines after the header of a prompt block.
BlockLines ==
    {LineHeaderQ, LineFileA, LineFileB, LineX, LineDiff, LineBlank, LineSep,
     LineFileBare, LinePromptBare}

\* One prompt block: its header, up to MaxBody further lines.
BlockContents ==
    {Join(<<LineHeaderP>> \o ls) :
        ls \in UNION {[1..n -> BlockLines] : n \in 1..MaxBody}}

\* The extractor run over a text that starts with a prompt header.
InitBlock ==
    /\ content \in BlockContents
    /\ db_exists = TRUE
    /\ ExtractIdle
    /\ MergeIdle

SpecBlock == InitBlock /\ [][NextExtract]_vars

\* The lines after the header of a block whose file names and content lines
\* have common parts.
SectionLines == {LineFileA, LineFileAB, LineX, LineBX, LineSep}

SectionContents ==
    {Join(<<LineHeaderP>> \o ls) :
        ls \in UNION {[1..n -> SectionLines] : n \in 1..MaxBody}}

InitSections ==
    /\ content \in SectionContents
    /\ db_exists = TRUE
    /\ ExtractIdle
    /\ MergeIdle

SpecSections == InitSections /\ [][NextExtract]_vars

\* process-logs.py run again and again while prompts.txt grows.
InitIncremental ==
    /\ content = <<>>
    /\ db_exists \in BOOLEAN
    /\ ExtractIdle
    /\ MergeIdle

NextIncremental ==
    \/ (MainNoDatabase /\ UNCHANGED mvars)
    \/ (MainReset /\ UNCHANGED mvars)
    \/ (MainNothingToProcess /\ UNCHANGED mvars)
    \/ (MainProcessStart /\ UNCHANGED mvars)
    \/ (ParsePromptHeader /\ UNCHANGED mvars)
    \/ (ParseFileHeader /\ UNCHANGED mvars)
    \/ (ParseSeparator /\ UNCHANGED mvars)
    \/ (ParseContent /\ UNCHANGED mvars)
    \/ (MainProcessEnd /\ UNCHANGED mvars)
    \/ (AppendLog /\ UNCHANGED mvars)
    \/ (Tick /\ UNCHANGED mvars)

SpecIncremental == InitIncremental /\ [][NextIncremental]_vars

\* The log texts a writer has left: up to MaxLogLines lines, each ended by a
\* newline.
LogTexts ==
    {Join(ls \o <<LineBlank>>) :
        ls \in UNION {[1..n -> LogLines] : n \in 1..MaxLogLines}}

\* process-logs.py run again and again over a log that is cut back.
InitRotate ==
    /\ content = <<>>
    /\ db_exists = TRUE
    /\ ProcessorIdle
    /\ \E text \in LogTexts : prompts_file = Some(text)
    /\ MergeIdle

NextRotate ==
    \/ (MainReset /\ UNCHANGED mvars)
    \/ (MainNothingToProcess /\ UNCHANGED mvars)
    \/ (MainProcessStart /\ UNCHANGED mvars)
    \/ (ParsePromptHeader /\ UNCHANGED mvars)
    \/ (ParseFileHeader /\ UNCHANGED mvars)
    \/ (ParseSeparator /\ UNCHANGED mvars)
    \/ (ParseContent /\ UNCHANGED mvars)
    \/ (MainProcessEnd /\ UNCHANGED mvars)
    \/ (TruncateLog /\ UNCHANGED mvars)
    \/ (Tick /\ UNCHANGED mvars)

SpecRotate == InitRotate /\ [][NextRotate]_vars

\* The rows the source databases of a merge are drawn from: two changes, the
\* first of them also as committed and with each stored timestamp.
MergeRowsA ==
    {Row(change_hash_of(<<"a">>, <<"x">>, <<"t">>), <<"a">>, <<"x">>, dt, <<"p">>,
         c[1], c[2]) :
        dt \in NowStart..(NowStart + MaxStamp - 1),
        c \in {<<FALSE, None>>, <<TRUE, Some(<<"c", "1">>)>>}}

MergeRowsB ==
    {Row(change_hash_of(<<"b">>, <<"y">>, <<"t">>), <<"b">>, <<"y">>, NowStart,
         <<"p">>, FALSE, None)}

MergeTables ==
    {ra \cup rb : ra \in {{}} \cup {{r} : r \in MergeRowsA},
                  rb \in {{}} \cup {{r} : r \in MergeRowsB}}

MergeFiles ==
    {MissingFile, ZeroFile, CorruptFile, NoTableDb}
    \cup {Database(t) : t \in MergeTables}

\* Merges over any three source files.
InitMerge ==
    /\ \E src \in [SourcePaths -> MergeFiles] :
          stores = [p \in Paths |-> IF p \in SourcePaths THEN src[p] ELSE MissingFile]
    /\ merged = [p \in Paths |-> NoMerge]
    /\ merge_exit = None
    /\ content = <<>>
    /\ db_exists = TRUE
    /\ ExtractIdle

NextMerge ==
    \/ (MergeMain /\ UNCHANGED <<evars, ivars>>)
    \/ (MergeForward /\ UNCHANGED <<evars, ivars>>)
    \/ (MergeReverse /\ UNCHANGED <<evars, ivars>>)

SpecMerge == InitMerge /\ [][NextMerge]_vars

\* Merges in batches of two stores, each batch into a new file.
NextBatch ==
    \/ (MergeAB /\ UNCHANGED <<evars, ivars>>)
    \/ (MergeAB_C /\ UNCHANGED <<evars, ivars>>)
    \/ (MergeBC /\ UNCHANGED <<evars, ivars>>)
    \/ (MergeA_BC /\ UNCHANGED <<evars, ivars>>)

SpecBatch == InitMerge /\ [][NextBatch]_vars

\* The driver's merge, a merge into a separate output and the merge of a
\* store with itself, each run any number of times.
NextRerun ==
    \/ (MergeMain /\ UNCHANGED <<evars, ivars>>)
    \/ (MergeForward /\ UNCHANGED <<evars, ivars>>)
    \/ (MergeSelf /\ UNCHANGED <<evars, ivars>>)

SpecRerun == InitMerge /\ [][NextRerun]_vars

(***************************************************************************)
(* Properties of merge-db.py                                               *)
(***************************************************************************)

DriverArgs == <<"base", "current", "other", "current">>

\* The rows of a target grew by this many in the last merge into it.
RowsAdded(p) ==
    Cardinality(stores[p].rows) - Cardinality(merged[p].pre[p].rows)

\* C1: after the merge driver's merge_databases(base, current, other,
\* current) has returned, the change_hashes of the output are exactly those
\* of the three sources, and no two rows of the output share a change_hash.
C1_MergeIsUnion ==
    LET m == merged["current"]
    IN  (m.status = "ok" /\ m.args = DriverArgs) =>
            /\ Hashes(stores["current"].rows) =
                  UNION {Hashes(m.pre[p].rows) : p \in SourcePaths}
            /\ PrimaryKeyOk(stores["current"].rows)

\* A driver merge whose output kept a hash of its own, took one from another
\* source, and met one hash in two sources with different fields.
C1_Witness ==
    LET m == merged["current"]
    IN  /\ m.status = "ok" /\ m.args = DriverArgs
        /\ Hashes(m.pre["other"].rows) \ Hashes(m.pre["current"].rows) # {}
        /\ \E r1 \in m.pre["base"].rows : \E r2 \in m.pre["current"].rows :
              r1.change_hash = r2.change_hash /\ r1 # r2

SameSources(m1, m2) == \A p \in SourcePaths : m1.pre[p] = m2.pre[p]

\* C2 (as claimed): the merge of (A, B, C) into an empty target and the merge of
\* (C, B, A) into another empty target leave the same rows, field by field.
C2_Commutative ==
    LET f == merged["t1"]
        r == merged["t2"]
    IN  (/\ f.status = "ok" /\ r.status = "ok"
         /\ f.pre["t1"] = MissingFile /\ r.pre["t2"] = MissingFile
         /\ SameSources(f, r))
        => stores["t1"].rows = stores["t2"].rows

\* C3: a merge never changes or removes a row its target held before: every
\* such row is still in the target afterwards.
C3_NoOverwrite ==
    \A p \in Paths :
        merged[p].status # "none" => merged[p].pre[p].rows \subseteq stores[p].rows

\* A merge whose target already held a row for which a source had the same
\* change_hash with other field values.
C3_Witness ==
    \E p \in Paths : \E q \in SourcePaths :
        /\ merged[p].status = "ok"
        /\ \E r1 \in merged[p].pre[p].rows : \E r2 \in merged[p].pre[q].rows :
              r1.change_hash = r2.change_hash /\ r1 # r2

\* C8 (as claimed): the number of unique records a merge reports is the number
\* of rows it added to its target.
C8_InsertedCountIsRowsAdded ==
    \A p \in Paths :
        merged[p].status = "ok" => merged[p].inserted_count = RowsAdded(p)

\* The sources the claim C10 speaks of: absent, zero-sized or unreadable.
NothingToRead(file) == file \in {MissingFile, ZeroFile, CorruptFile, NoTableDb}

HasRecords(file) == file.kind = "db" /\ file.table /\ file.rows # {}

\* The last merge into p had, as sources, a store B with records and, for
\* the rest, files with nothing to read; its target was one of them or new.
EmptyWithB(p, B) ==
    LET m == merged[p]
        srcs == {m.args[i] : i \in 1..3}
    IN  /\ m.status # "none"
        /\ HasRecords(B)
        /\ \A q \in srcs : m.pre[q] = B \/ NothingToRead(m.pre[q])
        /\ \E q \in srcs : m.pre[q] = B
        /\ \E q \in srcs : NothingToRead(m.pre[q])
        /\ (p \in srcs \/ m.pre[p] = MissingFile)

\* C10 (as claimed): a source that is absent, zero-sized or unreadable does not
\* fail the merge, and merged with a store B it leaves exactly B's rows.
C10_EmptySourceNeverFails ==
    \A p \in Paths : \A q \in SourcePaths :
        EmptyWithB(p, merged[p].pre[q]) =>
            merged[p].status = "ok" /\ stores[p].rows = merged[p].pre[q].rows

\* C10 (amended): such a source contributes no records, and merged with a
\* store B the target holds exactly B's rows, unless the unreadable file is
\* also the output path and is not a database: then the merge fails and
\* the output file is left as it was.
C10_EmptySourceContributesNothing ==
    \A p \in Paths : \A q \in SourcePaths :
        EmptyWithB(p, merged[p].pre[q]) =>
            IF merged[p].pre[p] = CorruptFile
            THEN merged[p].status = "failed" /\ stores[p] = merged[p].pre[p]
            ELSE merged[p].status = "ok" /\ stores[p].rows = merged[p].pre[q].rows

\* The driver merged B with an absent, a zero-sized or an unreadable current
\* file, which is also its output, and succeeded.
C10_Witness ==
    LET m == merged["current"]
    IN  /\ m.status = "ok"
        /\ m.pre["current"] \in {MissingFile, ZeroFile, NoTableDb}
        /\ m.pre["other"] = CorruptFile
        /\ EmptyWithB("current", m.pre["base"])
        /\ stores["current"].rows = m.pre["base"].rows

\* The four batch merges ran, each into a target that was not there, over
\* the same stores A (base), B (current) and C (other).
BatchesDone ==
    /\ \A p \in BatchPaths :
          merged[p].status = "ok" /\ merged[p].pre[p] = MissingFile
    /\ merged["ab"].pre["base"] = merged["a_bc"].pre["base"]
    /\ merged["ab"].pre["current"] = merged["bc"].pre["current"]
    /\ merged["ab_c"].pre["other"] = merged["bc"].pre["other"]
    /\ merged["ab_c"].pre["ab"] = stores["ab"]
    /\ merged["a_bc"].pre["bc"] = stores["bc"]

\* C11: merge(merge(A, B), C) and merge(A, merge(B, C)), each merge into a
\* target that was empty, leave the same rows: the same change_hashes with
\* the same value in every field.
C11_Associative ==
    BatchesDone => stores["ab_c"].rows = stores["a_bc"].rows

\* Both batch orders ran over stores of which A and B hold one change_hash
\* with different field values and C holds that change_hash as well.
C11_Witness ==
    /\ BatchesDone
    /\ \E r1 \in merged["ab"].pre["base"].rows :
       \E r2 \in merged["ab"].pre["current"].rows :
       \E r3 \in merged["bc"].pre["other"].rows :
          /\ r1.change_hash = r2.change_hash /\ r1 # r2
          /\ r3.change_hash = r1.change_hash
    /\ Cardinality(stores["ab_c"].rows) = 2

MergeSources(m) == {m.args[i] : i \in 1..3}

\* The step is a merge into p with the arguments of the last merge into p,
\* from sources that are as that merge found them (p itself is as it left it).
MergedAgain(p) ==
    /\ merged[p].status = "ok"
    /\ merged'[p].status # "none"
    /\ merged'[p].args = merged[p].args
    /\ merged'[p].pre = stores
    /\ \A q \in MergeSources(merged[p]) \ {p} : stores[q] = merged[p].pre[q]

\* C12: a store merged with itself (base = current = other = output) keeps
\* its rows as they were and gets no new row; a merge run a second time with
\* the same sources and target adds no row and changes no row.
C12_Idempotent ==
    [][\A p \in Paths :
          /\ (merged'[p].status # "none" /\ merged'[p].args = <<p, p, p, p>>)
                => stores'[p].rows = merged'[p].pre[p].rows
          /\ MergedAgain(p) =>
                (merged'[p].status = "ok" /\ stores'[p].rows = stores[p].rows)]_vars

\* A store with a committed row was merged with itself, and the merge into
\* t1, which adds rows the first time, has been run a second time.
C12_Witness ==
    /\ merged["other"].status = "ok"
    /\ \E r \in merged["other"].pre["other"].rows : r.is_committed
    /\ merged["t1"].status = "ok"
    /\ merged["t1"].pre["t1"].rows # {}
    /\ \A q \in SourcePaths : stores[q] = merged["t1"].pre[q]

(***************************************************************************)
(* Properties of the extractor                                             *)
(***************************************************************************)

Returned == pc = "idle" /\ result # None

\* A line that is collected as content and is not blank.
IsTextLine(line) ==
    /\ ~timestamp_match(line) /\ ~file_match(line) /\ ~IsSeparator(line)
    /\ Strip(line) # <<>>
    /\ CollectsForCurrent(line) /\ CollectsForPending(line)

\* A text that is one prompt block with two file sections: the header,
\* FILE: f, text lines (or none), FILE: g at line k, one or more text lines.
TwoFileBlock(ls, k) ==
    /\ Len(ls) >= 4
    /\ timestamp_match(ls[1])
    /\ file_match(ls[2])
    /\ k \in 3..(Len(ls) - 1)
    /\ file_match(ls[k])
    /\ FileName(ls[k]) # FileName(ls[2])
    /\ \A i \in 3..Len(ls) : i # k => IsTextLine(ls[i])

\* C4 (as claimed): the extractor emits exactly two records for a prompt block
\* with two FILE: sections, one per file name, both with the block's prompt
\* and timestamp, whether or not the first section has content lines.
C4_TwoFilesTwoRecords ==
    LET ls == Split(content)
    IN  \A k \in 1..Len(ls) :
            (Returned /\ TwoFileBlock(ls, k)) =>
                /\ Len(emitted) = 2
                /\ {emitted[i].filename : i \in 1..2} =
                      {FileName(ls[2]), FileName(ls[k])}
                /\ \A i \in 1..2 :
                      /\ emitted[i].prompt = HeaderPrompt(ls[1])
                      /\ emitted[i].timestamp_text = HeaderTimestamp(ls[1])

\* C5: every record the extractor builds and every row it stores has a
\* non-empty filename, prompt and timestamp text and a file_change that is not
\* blank after trimming; before the first prompt header of a run nothing
\* is stored.
C5_StoredRecordsComplete ==
    /\ \A i \in 1..Len(emitted) :
          /\ emitted[i].filename # <<>>
          /\ emitted[i].prompt # <<>>
          /\ emitted[i].timestamp_text # <<>>
          /\ Strip(emitted[i].file_change) # <<>>
    /\ \A r \in code_changes :
          r.filename # <<>> /\ r.prompt # <<>> /\ Strip(r.file_change) # <<>>
    /\ (pc = "loop" /\ current_prompt = None) => (emitted = <<>> /\ inserted = 0)

\* A run has reached, under a prompt, the flush of a file section whose
\* collected lines are not empty but are all whitespace.
C5_Witness ==
    /\ pc = "loop"
    /\ Truthy(current_prompt)
    /\ Truthy(current_timestamp)
    /\ Truthy(current_file)
    /\ Join(file_changes) # <<>>
    /\ Strip(Join(file_changes)) = <<>>
    /\ (idx > Len(lines) \/ file_match(lines[idx]))

\* C6: a run of the extractor over the text of an earlier run, against the
\* same table, adds no row and leaves the table as the first run left it.
C6_IdempotentIngestion ==
    rerun => (inserted = 0 /\ code_changes = first_run[1])

\* A second run has returned; it built a record whose timestamp fell back to a
\* later clock reading than that of the row the first run stored.
C6_Witness ==
    /\ Returned
    /\ rerun
    /\ \E i \in 1..Len(emitted) : \E r \in code_changes :
          /\ r.change_hash = emitted[i].row.change_hash
          /\ r.timestamp < emitted[i].row.timestamp

\* C7 (as claimed): the count the extractor returns is the number of records
\* it emitted.
C7_CountIsEmitted ==
    Returned => result[1] = Len(emitted)

\* A line that is neither a header nor a separator and is collected as
\* content of an open file.
IsCollected(line) ==
    /\ ~timestamp_match(line) /\ ~file_match(line) /\ ~IsSeparator(line)
    /\ CollectsForCurrent(line)

\* The content of a file section opened at line j, flushed after line m.
SectionBody(ls, j, m) == Join(SelectSeq(SubSeq(ls, j + 1, m), IsCollected))

\* The lines the running (or the last) call has gone through.
LinesDone == IF pc = "loop" THEN idx - 1 ELSE Len(Split(content))

\* Immediately after a prompt header: its values are adopted and no file is
\* open.
AfterHeaderClean ==
    (pc = "loop" /\ idx > 1 /\ timestamp_match(lines[idx - 1])) =>
        /\ current_timestamp = Some(HeaderTimestamp(lines[idx - 1]))
        /\ current_prompt = Some(HeaderPrompt(lines[idx - 1]))
        /\ current_file = None /\ file_changes = <<>>
        /\ pending_file = None /\ pending_file_changes = <<>>

\* C14: every record the extractor emits has the prompt and the timestamp of
\* the prompt header that most recently precedes its FILE: header, and its
\* content is made of lines of that block only; right after a prompt header
\* the new values are in effect and both file slots and accumulators are
\* empty.
C14_RecordsCarryTheirHeader ==
    /\ AfterHeaderClean
    /\ LET ls == Split(content)
       IN  \A i \in 1..Len(emitted) :
             \E h \in 1..LinesDone : \E j \in (h + 1)..LinesDone :
             \E m \in j..LinesDone :
                /\ timestamp_match(ls[h])
                /\ \A k \in (h + 1)..m : ~timestamp_match(ls[k])
                /\ file_match(ls[j])
                /\ emitted[i].filename = FileName(ls[j])
                /\ emitted[i].prompt = HeaderPrompt(ls[h])
                /\ emitted[i].timestamp_text = HeaderTimestamp(ls[h])
                /\ emitted[i].file_change = SectionBody(ls, j, m)

\* A new prompt header has just been processed, and the record flushed at it
\* carries the prompt of the header before, not the new one.
C14_Witness ==
    /\ pc = "loop" /\ idx > 1
    /\ timestamp_match(lines[idx - 1])
    /\ Len(emitted) >= 1
    /\ Some(emitted[Len(emitted)].prompt) # current_prompt
    /\ Some(emitted[Len(emitted)].timestamp_text) # current_timestamp

\* C19: while the extractor runs, a pending file is open only if a current
\* file is open, and right after a prompt header neither is open.
C19_PendingImpliesCurrent ==
    /\ pending_file # None => current_file # None
    /\ (pc = "loop" /\ idx > 1 /\ timestamp_match(lines[idx - 1])) =>
          (current_file = None /\ pending_file = None)

\* A prompt header has just been processed that came right after two FILE:
\* headers, so that both slots were open when it was read.
C19_Witness ==
    /\ pc = "loop" /\ idx > 3
    /\ timestamp_match(lines[idx - 1])
    /\ file_match(lines[idx - 2])
    /\ file_match(lines[idx - 3])
    /\ pending_file = None /\ current_file = None

\* Line j of the text opens a file section under a prompt header, and the
\* section has a text line before the next header or the end.
SectionWithText(ls, j) ==
    /\ file_match(ls[j])
    /\ \E h \in 1..(j - 1) : timestamp_match(ls[h])
    /\ \E k \in (j + 1)..Len(ls) :
          /\ IsTextLine(ls[k])
          /\ \A i \in (j + 1)..k : ~file_match(ls[i]) /\ ~timestamp_match(ls[i])

\* C15 (as claimed): when the extractor has returned, every FILE: section that
\* follows a prompt header and has a non-blank content line before the next
\* header or the end has a stored record with its file name.
C15_NoSectionLost ==
    LET ls == Split(content)
    IN  Returned =>
            \A j \in 1..Len(ls) :
                SectionWithText(ls, j) =>
                    \E r \in code_changes : r.filename = FileName(ls[j])

(***************************************************************************)
(* Properties of the change_hash                                           *)
(***************************************************************************)

Triple(e) == <<e.filename, e.file_change, e.timestamp_text>>

\* The two records differ in exactly one of filename, file_change, timestamp.
DifferInOne(e1, e2) ==
    Cardinality({k \in 1..3 : Triple(e1)[k] # Triple(e2)[k]}) = 1

\* C13: two calls with the same (filename, file_change, timestamp text) get the
\* same change_hash, whatever the clock reads, and two calls that differ in
\* exactly one of the three get different change_hashes.
C13_HashDeterminism ==
    \A i \in 1..Len(emitted) : \A j \in 1..Len(emitted) :
        /\ Triple(emitted[i]) = Triple(emitted[j]) =>
              emitted[i].row.change_hash = emitted[j].row.change_hash
        /\ DifferInOne(emitted[i], emitted[j]) =>
              emitted[i].row.change_hash # emitted[j].row.change_hash

\* Two calls that differ only in the timestamp text, one text being a prefix
\* of the other, have each stored a row.
C13_Witness ==
    /\ Len(emitted) = 2
    /\ emitted[1].filename = emitted[2].filename
    /\ emitted[1].file_change = emitted[2].file_change
    /\ emitted[1].timestamp_text # emitted[2].timestamp_text
    /\ Cardinality(code_changes) = 2

\* C20 (as claimed): two changes whose (filename, file_change, timestamp text)
\* differ get different change_hashes, so every change _store_change accepted
\* has a row with its filename and its content.
C20_HashInjective ==
    /\ \A i \in 1..Len(emitted) : \A j \in 1..Len(emitted) :
          Triple(emitted[i]) # Triple(emitted[j]) =>
              emitted[i].row.change_hash # emitted[j].row.change_hash
    /\ \A i \in 1..Len(emitted) : \E r \in code_changes :
          r.filename = emitted[i].filename
          /\ r.file_change = emitted[i].file_change

(***************************************************************************)
(* Properties of the incremental run                                       *)
(***************************************************************************)

\* C9 (as claimed): a run of process-logs.py that finds nothing to process (no
\* prompts.txt, no content beyond the stored position, or only whitespace
\* beyond it) stores nothing and ends with exit status 0.
C9_NothingToProcessSucceeds ==
    last_run \in {"no_file", "no_new", "blank"} =>
        (inserted = 0 /\ exit_code = Some(0))

\* The offset stored in processing_metadata, 0 when none is stored.
StoredOffset == IF last_position = None THEN 0 ELSE StrToInt(last_position[1])

\* The ranges handed to the extractor since the last reset do not overlap
\* and come in increasing order.
HandedOnce(h) ==
    \A i \in 1..Len(h) : \A j \in 1..Len(h) :
        i < j => (h[i].from < h[i].to /\ h[i].to <= h[j].from)

\* C16: a run hands the extractor exactly the text beyond the stored offset;
\* when the extractor returns, the stored offset becomes the size read at the
\* start of the run; no offset of the log is handed over in two runs; and the
\* stored offset decreases only in reset_position.
C16_EachPartHandedOnce ==
    [][/\ (pc = "idle" /\ pc' = "loop") =>
             /\ content' = SubSeq(prompts_file[1], StoredOffset + 1,
                                  Len(prompts_file[1]))
             /\ current_size' = Len(prompts_file[1])
             /\ lines' = Split(content')
       /\ (pc = "loop" /\ pc' = "idle") =>
             /\ StoredOffset' = current_size
             /\ StoredOffset' = Len(prompts_file[1])
       /\ HandedOnce(handed')
       /\ last_run' # "reset" => StoredOffset' >= StoredOffset]_vars

\* Two runs have each processed a part of the log, the second the lines
\* appended after the first.
C16_Witness ==
    /\ pc = "idle"
    /\ last_run = "processed"
    /\ Len(handed) = 2
    /\ handed[1].from = 0
    /\ handed[2].from = handed[1].to
    /\ handed[2].from < handed[2].to
    /\ handed[2].to = Len(prompts_file[1])
    /\ StoredOffset = Len(prompts_file[1])

\* C17: when the log is not larger than the stored offset (also when it was
\* cut back below it), no step but reset_position adds a row, changes the
\* stored offset or starts the extractor.
C17_NoWorkWhenNotLarger ==
    [][(/\ pc = "idle"
        /\ prompts_file # None
        /\ Len(prompts_file[1]) <= StoredOffset
        /\ last_run' # "reset")
       => (/\ pc' = "idle"
           /\ code_changes' = code_changes
           /\ last_position' = last_position)]_vars

\* A run has found a log that still has lines but was cut back below the
\* stored offset, after an earlier run stored a row.
C17_Witness ==
    /\ last_run = "no_new"
    /\ prompts_file # None
    /\ 0 < Len(prompts_file[1])
    /\ Len(prompts_file[1]) < StoredOffset
    /\ code_changes # {}

\* The rows without the parsed time, which is the clock reading of the run
\* when the timestamp text is not a date.
WithoutTime(rows) == {[r EXCEPT !.timestamp = 0] : r \in rows}

\* Two runs, the first on an empty table from offset 0, have between them
\* been handed the whole log as it is now.
TwoRunsOverWholeLog ==
    /\ pc = "idle"
    /\ last_run = "processed"
    /\ Len(handed) = 2
    /\ handed[1].from = 0
    /\ handed[1].rows = {}
    /\ handed[2].from = handed[1].to
    /\ handed[1].text \o handed[2].text = prompts_file[1]

\* C18 (as claimed): two incremental runs, one after a prefix of the log was
\* written and one after the rest was appended, store the same records as
\* one call of the extractor over the whole log.
C18_IncrementalIsOnePass ==
    TwoRunsOverWholeLog =>
        WithoutTime(code_changes) =
            WithoutTime(parse_and_store_changes(prompts_file[1], {}, now).rows)

====
